---- MODULE Spec2Model ----
(***************************************************************************)
(* Model of the schema validator of 01-edu/framework (src/validator.ts,    *)
(* duplicated verbatim in src/api/validator.ts).                           *)
(*                                                                         *)
(* A definition node is a record carrying its `type`, its `optional` flag  *)
(* and its payload (`values`, `of`, `types`, `properties`).  The `assert`  *)
(* and `report` closures a node carries are functions of that record, so   *)
(* they are modelled by the operators assertDef and reportDef, which       *)
(* interpret the record the way the generated function bodies run.         *)
(***************************************************************************)
EXTENDS Integers, Sequences, FiniteSets, TLC

VARIABLES
  def,       \* the definition node under construction or in use
  value,     \* the untrusted input (the payload of a request)
  depth,     \* the number of containers built around the leaf of def
  asserted,  \* the outcome of def.assert(value), once called
  reported,  \* the outcome of def.report(value, path), once called
  orig,      \* what is known of a node passed to optional(): see SpecOptional
  router,    \* a request in the router: its position, the calls made, the response
  timer,     \* the module state of time.ts and the values now() returned
  docs       \* the result of extractDocs(def), once called

vars == <<def, value, depth, asserted, reported, orig, router, timer, docs>>

\* what the validator neither reads nor writes
outside == <<router, timer, docs>>

(***************************************************************************)
(* Bounds of the model.                                                    *)
(***************************************************************************)
\* the number of builders (ARR, OBJ, UNION) nested around a leaf
MaxDepth == 2

(***************************************************************************)
(* JavaScript values.  Objects and arrays carry `ref`, the identity of the *)
(* object, so that "the same object" and "an equal copy" differ.           *)
(***************************************************************************)
Undefined == [t |-> "undefined"]
Null == [t |-> "null"]
NaN == [t |-> "number", nan |-> TRUE]
\* a hole of a sparse array: reads as undefined, skipped by forEach
Hole == [t |-> "hole"]
Str(s) == [t |-> "string", s |-> s]
Num(n) == [t |-> "number", n |-> n]
Bool(b) == [t |-> "boolean", b |-> b]
Field(k, v) == [key |-> k, val |-> v]
Obj(ref, props) == [t |-> "object", ref |-> ref, props |-> props]
Arr(ref, elems) == [t |-> "array", ref |-> ref, elems |-> elems]

\* typeof v
TypeOf(v) ==
  CASE v.t = "undefined" -> "undefined"
    [] v.t \in {"null", "object", "array"} -> "object"
    [] OTHER -> v.t

\* !v
Falsy(v) ==
  \/ v.t \in {"undefined", "null"}
  \/ v = NaN
  \/ v = Num(0)
  \/ v = Str("")
  \/ v = Bool(FALSE)

\* v == null
IsNullish(v) == v.t \in {"undefined", "null"}

\* Array.isArray(v)
IsArray(v) == v.t = "array"

\* o[k] for a string key k that is no array index
Get(o, k) ==
  IF o.t = "object" /\ \E i \in 1..Len(o.props) : o.props[i].key = k
  THEN o.props[CHOOSE i \in 1..Len(o.props) : o.props[i].key = k].val
  ELSE Undefined

\* a[i] for the 1-based position i of the model (index i - 1 of the code)
ElemAt(a, i) == IF a.elems[i] = Hole THEN Undefined ELSE a.elems[i]

\* steps of a failure path: a field name or an array index
Key(k) == [key |-> k]
Idx(i) == [idx |-> i]

(***************************************************************************)
(* Builders.                                                               *)
(***************************************************************************)
NUM == [type |-> "number", optional |-> FALSE]
STR == [type |-> "string", optional |-> FALSE]
BOOL == [type |-> "boolean", optional |-> FALSE]
LIST(possibleValues) ==
  [type |-> "list", optional |-> FALSE, values |-> possibleValues]
ARR(d) == [type |-> "array", optional |-> FALSE, of |-> d]
\* properties: the sequence of Object.entries(properties), in declaration order
Prop(k, d) == [key |-> k, def |-> d]
OBJ(properties) ==
  [type |-> "object", optional |-> FALSE, properties |-> properties]
\* UNION(...types); the name UNION is reserved in TLA+
Union(types) == [type |-> "union", optional |-> FALSE, types |-> types]
\* { ...rest, description, optional: true, assert: optionalAssert }
optional(d) == [d EXCEPT !.optional = TRUE]

\* mutant: the argument itself is made optional and returned
optionalCallInPlace(d) == [node |-> optional(d), arg |-> optional(d)]

\* a call optional(d): the node it returns, and the argument as the caller
\* holds it afterwards (def is destructured and spread, never written to)
optionalCall(d) == [node |-> optional(d), arg |-> d]

(***************************************************************************)
(* assert.  An outcome records whether the call threw, the value it        *)
(* returned, and `calls`: the assert functions the call invoked below it,  *)
(* in order, each with the place `at` of the definition tree and element   *)
(* it was invoked for, and its argument.                                   *)
(***************************************************************************)
Ok(v, calls) == [threw |-> FALSE, value |-> v, calls |-> calls]
Throw(calls) == [threw |-> TRUE, value |-> Undefined, calls |-> calls]
Call(fn, at, arg) == [fn |-> fn, at |-> at, arg |-> arg]

\* mutant: typeof alone, NaN let through
assertNumberTypeofOnly(v) ==
  IF TypeOf(v) = "number" THEN Ok(v, <<>>) ELSE Throw(<<>>)

assertNumber(v) ==
  IF TypeOf(v) = "number" /\ v # NaN THEN Ok(v, <<>>) ELSE Throw(<<>>)

\* mutant: no typeof test
assertStringAny(v) == Ok(v, <<>>)

assertString(v) == IF TypeOf(v) = "string" THEN Ok(v, <<>>) ELSE Throw(<<>>)

assertBoolean(v) == IF TypeOf(v) = "boolean" THEN Ok(v, <<>>) ELSE Throw(<<>>)

\* possibleValues.includes(value)
Includes(possibleValues, v) ==
  \E i \in 1..Len(possibleValues) : possibleValues[i] = v

assertList(possibleValues, v) ==
  IF Includes(possibleValues, v) THEN Ok(v, <<>>) ELSE Throw(<<>>)

RECURSIVE assertDef(_, _, _)
RECURSIVE assertFields(_, _, _, _)
RECURSIVE forEachAssert(_, _, _, _)
RECURSIVE assertTypes(_, _, _, _)

RECURSIVE assertTypesTryAll(_, _, _, _)
RECURSIVE assertFieldsContinue(_, _, _, _)
RECURSIVE reportTypesNoReturn(_, _, _, _, _)
RECURSIVE reportFieldsFailFast(_, _, _, _)
RECURSIVE reportFieldsCapped(_, _, _, _)
RECURSIVE reportElemsTruncated(_, _, _, _, _)

\* mutant: a field assert that throws does not end the traversal
assertFieldsContinue(properties, o, i, at) ==
  IF i > Len(properties) THEN Ok(Undefined, <<>>)
  ELSE LET k == properties[i].key
           r == assertDef(properties[i].def, Get(o, k), at \o <<Key(k)>>)
           rest == assertFieldsContinue(properties, o, i + 1, at)
       IN IF r.threw THEN Throw(r.calls \o rest.calls)
          ELSE [rest EXCEPT !.calls = r.calls \o @]

\* the statements `v[k].assert(o[k])` of the generated body, from the i-th on
assertFields(properties, o, i, at) ==
  IF i > Len(properties) THEN Ok(Undefined, <<>>)
  ELSE LET k == properties[i].key
           r == assertDef(properties[i].def, Get(o, k), at \o <<Key(k)>>)
       IN IF r.threw THEN Throw(r.calls)
          ELSE LET rest == assertFields(properties, o, i + 1, at)
               IN [rest EXCEPT !.calls = r.calls \o @]

\* mutant: a new object holding the declared fields only is returned
assertObjectCopy(properties, o, at) ==
  IF Falsy(o) \/ TypeOf(o) # "object" THEN Throw(<<>>)
  ELSE LET r == assertFields(properties, o, 1, at)
           copy == [i \in 1..Len(properties) |->
                     Field(properties[i].key, Get(o, properties[i].key))]
       IN IF r.threw THEN Throw(r.calls) ELSE Ok(Obj(0, copy), r.calls)

assertObject(properties, o, at) ==
  IF Falsy(o) \/ TypeOf(o) # "object" THEN Throw(<<>>)
  ELSE LET r == assertFields(properties, o, 1, at)
       IN IF r.threw THEN Throw(r.calls) ELSE Ok(o, r.calls)

\* a.forEach(assert), from position i on: holes are skipped
forEachAssert(d, a, i, at) ==
  IF i > Len(a.elems) THEN Ok(Undefined, <<>>)
  ELSE IF a.elems[i] = Hole THEN forEachAssert(d, a, i + 1, at)
  ELSE LET r == assertDef(d, a.elems[i], at \o <<Idx(i - 1)>>)
       IN IF r.threw THEN Throw(r.calls)
          ELSE LET rest == forEachAssert(d, a, i + 1, at)
               IN [rest EXCEPT !.calls = r.calls \o @]

\* mutant: a copy of the array is returned
assertArrayCopy(d, a, at) ==
  IF ~IsArray(a) THEN Throw(<<>>)
  ELSE LET r == forEachAssert(d, a, 1, at)
       IN IF r.threw THEN Throw(r.calls) ELSE Ok(Arr(0, a.elems), r.calls)

assertArray(d, a, at) ==
  IF ~IsArray(a) THEN Throw(<<>>)
  ELSE LET r == forEachAssert(d, a, 1, at)
       IN IF r.threw THEN Throw(r.calls) ELSE Ok(a, r.calls)

\* mutant: no return inside the loop, every alternative is tried
assertTypesTryAll(types, v, i, at) ==
  IF i > Len(types) THEN Throw(<<>>)
  ELSE LET r == assertDef(types[i], v, at \o <<[alt |-> i]>>)
           rest == assertTypesTryAll(types, v, i + 1, at)
       IN IF ~r.threw THEN [r EXCEPT !.calls = @ \o rest.calls]
          ELSE [rest EXCEPT !.calls = r.calls \o @]

\* for (const type of types) try { return type.assert(value) } catch {}
assertTypes(types, v, i, at) ==
  IF i > Len(types) THEN Throw(<<>>)
  ELSE LET r == assertDef(types[i], v, at \o <<[alt |-> i]>>)
       IN IF ~r.threw THEN r
          ELSE LET rest == assertTypes(types, v, i + 1, at)
               IN [rest EXCEPT !.calls = r.calls \o @]

assertUnion(types, v, at) == assertTypes(types, v, 1, at)

\* the assert function a builder attaches to the node, before optional wraps it
baseAssert(d, v, at) ==
  CASE d.type = "number" -> assertNumber(v)
    [] d.type = "string" -> assertString(v)
    [] d.type = "boolean" -> assertBoolean(v)
    [] d.type = "list" -> assertList(d.values, v)
    [] d.type = "array" -> assertArray(d.of, v, at)
    [] d.type = "object" -> assertObject(d.properties, v, at)
    [] d.type = "union" -> assertUnion(d.types, v, at)

\* mutant: a nullish value is returned as it came
optionalAssertKeep(d, v, at) ==
  IF IsNullish(v) THEN Ok(v, <<>>)
  ELSE LET r == baseAssert(d, v, at)
       IN [r EXCEPT !.calls = <<Call("assert", at, v)>> \o @]

\* mutant: value === undefined, so that null reaches the wrapped assert
optionalAssertStrict(d, v, at) ==
  IF v = Undefined THEN Ok(Undefined, <<>>)
  ELSE LET r == baseAssert(d, v, at)
       IN [r EXCEPT !.calls = <<Call("assert", at, v)>> \o @]

\* value == null ? undefined : assert(value)
optionalAssert(d, v, at) ==
  IF IsNullish(v) THEN Ok(Undefined, <<>>)
  ELSE LET r == baseAssert(d, v, at)
       IN [r EXCEPT !.calls = <<Call("assert", at, v)>> \o @]

\* d.assert(v), invoked for the place `at`
assertDef(d, v, at) ==
  IF d.optional
  THEN LET r == optionalAssert(d, v, at)
       IN [r EXCEPT !.calls = <<Call("optionalAssert", at, v)>> \o @]
  ELSE LET r == baseAssert(d, v, at)
       IN [r EXCEPT !.calls = <<Call("assert", at, v)>> \o @]

(***************************************************************************)
(* report.  A failure is a record {path, type, value}, with `expected`     *)
(* added by LIST.                                                          *)
(***************************************************************************)
\* the cap test of reportArray: `if (failures.length > 9) return failures`
FailureCap == 9

Failure(p, type, v) == [path |-> p, type |-> type, value |-> v]

\* the report of NUM, STR and BOOL: (value) => [{ type, value, path: [] }]
reportLeaf(type, v, p) == <<Failure(<<>>, type, v)>>

\* mutant: the failure carries the default path, not the path passed in
reportListNoPath(possibleValues, v, p) ==
  IF Includes(possibleValues, v) THEN <<>>
  ELSE <<[path |-> <<>>, type |-> "list", value |-> v,
          expected |-> possibleValues]>>

reportList(possibleValues, v, p) ==
  IF Includes(possibleValues, v) THEN <<>>
  ELSE <<[path |-> p, type |-> "list", value |-> v, expected |-> possibleValues]>>

RECURSIVE reportDef(_, _, _)
RECURSIVE reportFields(_, _, _, _)
RECURSIVE reportElems(_, _, _, _, _)
RECURSIVE reportTypes(_, _, _, _, _)

\* mutant: the optional flag of object and array fields is not consulted
reportFieldNoOptional(properties, o, p, i) ==
  LET k == properties[i].key
      d == properties[i].def
      path == p \o <<Key(k)>>
  IN IF d.type \in {"object", "array"}
     THEN reportDef(d, Get(o, k), path)
     ELSE IF (d.optional /\ Get(o, k) = Undefined) \/ TypeOf(Get(o, k)) = d.type
          THEN <<>>
          ELSE <<Failure(path, d.type, Get(o, k))>>

\* mutant: an undefined field is skipped whether declared optional or not
reportFieldSkipMissing(properties, o, p, i) ==
  LET k == properties[i].key
      d == properties[i].def
      path == p \o <<Key(k)>>
  IN IF Get(o, k) = Undefined THEN <<>>
     ELSE IF d.type \in {"object", "array"}
          THEN reportDef(d, Get(o, k), path)
          ELSE IF TypeOf(Get(o, k)) = d.type THEN <<>>
               ELSE <<Failure(path, d.type, Get(o, k))>>

\* the statement generated for the i-th property
reportField(properties, o, p, i) ==
  LET k == properties[i].key
      d == properties[i].def
      path == p \o <<Key(k)>>
  IN IF d.type \in {"object", "array"}
     THEN IF d.optional /\ Get(o, k) = Undefined THEN <<>>
          ELSE reportDef(d, Get(o, k), path)
     ELSE IF (d.optional /\ Get(o, k) = Undefined) \/ TypeOf(Get(o, k)) = d.type
          THEN <<>>
          ELSE <<Failure(path, d.type, Get(o, k))>>

\* mutant: the first failing field ends the report
reportFieldsFailFast(properties, o, p, i) ==
  IF i > Len(properties) THEN <<>>
  ELSE LET f == reportField(properties, o, p, i)
       IN IF f # <<>> THEN f
          ELSE reportFieldsFailFast(properties, o, p, i + 1)

\* mutant: one cap for the whole object, no field is visited once more than
\* nine failures are there
reportFieldsCapped(properties, o, p, i) ==
  IF i > Len(properties) THEN <<>>
  ELSE LET f == reportField(properties, o, p, i)
       IN IF Len(f) > FailureCap THEN f
          ELSE f \o reportFieldsCapped(properties, o, p, i + 1)

reportFields(properties, o, p, i) ==
  IF i > Len(properties) THEN <<>>
  ELSE reportField(properties, o, p, i) \o reportFields(properties, o, p, i + 1)

\* mutant: typeof alone, which null passes
ObjectGuardTypeofOnly(o) == TypeOf(o) # "object"

\* if (!o || typeof o !== "object") return [...]
ObjectGuard(o) == Falsy(o) \/ TypeOf(o) # "object"

reportObject(properties, o, p) ==
  IF ObjectGuard(o) THEN <<Failure(p, "object", o)>>
  ELSE reportFields(properties, o, p, 1)

\* mutant: the path carries the position counted from one
reportElemOneBased(d, e, p, i) ==
  IF d.type \in {"object", "array"}
  THEN reportDef(d, e, p \o <<Idx(i)>>)
  ELSE IF (d.optional /\ e = Undefined) \/ TypeOf(e) = d.type
       THEN <<>>
       ELSE <<Failure(p \o <<Idx(i)>>, d.type, e)>>

\* the statement of the loop body generated for the element definition d
reportElem(d, e, p, i) ==
  IF d.type \in {"object", "array"}
  THEN reportDef(d, e, p \o <<Idx(i - 1)>>)
  ELSE IF (d.optional /\ e = Undefined) \/ TypeOf(e) = d.type
       THEN <<>>
       ELSE <<Failure(p \o <<Idx(i - 1)>>, d.type, e)>>

\* mutant: the failures past the tenth are cut off
reportElemsTruncated(d, a, p, i, failures) ==
  IF i > Len(a.elems) THEN failures
  ELSE LET acc == failures \o reportElem(d, ElemAt(a, i), p, i)
       IN IF Len(acc) > FailureCap THEN SubSeq(acc, 1, FailureCap + 1)
          ELSE reportElemsTruncated(d, a, p, i + 1, acc)

\* while (++i < max) { ...; if (failures.length > 9) return failures }
reportElems(d, a, p, i, failures) ==
  IF i > Len(a.elems) THEN failures
  ELSE LET acc == failures \o reportElem(d, ElemAt(a, i), p, i)
       IN IF Len(acc) > FailureCap THEN acc
          ELSE reportElems(d, a, p, i + 1, acc)

reportArray(d, a, p) ==
  IF ~IsArray(a) THEN <<Failure(p, "array", a)>>
  ELSE reportElems(d, a, p, 1, <<>>)

\* mutant: an alternative that matches does not end the loop
reportTypesNoReturn(types, v, p, i, failures) ==
  IF i > Len(types) THEN failures
  ELSE reportTypesNoReturn(types, v, p, i + 1,
                           failures \o reportDef(types[i], v, p))

\* for (const type of types) { ...; if (result.length === 0) return [] }
reportTypes(types, v, p, i, failures) ==
  IF i > Len(types) THEN failures
  ELSE LET result == reportDef(types[i], v, p)
       IN IF Len(result) = 0 THEN <<>>
          ELSE reportTypes(types, v, p, i + 1, failures \o result)

reportUnion(types, v, p) == reportTypes(types, v, p, 1, <<>>)

\* d.report(v, p): optional() copies the report of the node it wraps
reportDef(d, v, p) ==
  CASE d.type \in {"number", "string", "boolean"} -> reportLeaf(d.type, v, p)
    [] d.type = "list" -> reportList(d.values, v, p)
    [] d.type = "array" -> reportArray(d.of, v, p)
    [] d.type = "object" -> reportObject(d.properties, v, p)
    [] d.type = "union" -> reportUnion(d.types, v, p)

\* o[k] throws a TypeError when o is null or undefined
PropertyThrows(o) == IsNullish(o)

\* whether d.report(v) throws: the only operations of the report functions
\* that can throw are the property reads o[k] of the generated bodies and
\* the child reports they call; an array is read by index after
\* Array.isArray, and elements past the cap are never reached
RECURSIVE reportThrows(_, _)
reportThrows(d, v) ==
  CASE d.type \in {"number", "string", "boolean", "list"} -> FALSE
    [] d.type = "object" ->
         /\ ~ObjectGuard(v)
         /\ \/ PropertyThrows(v)
            \/ \E i \in 1..Len(d.properties) :
                 LET c == d.properties[i].def
                     x == Get(v, d.properties[i].key)
                 IN /\ c.type \in {"object", "array"}
                    /\ ~(c.optional /\ x = Undefined)
                    /\ reportThrows(c, x)
    [] d.type = "array" ->
         /\ IsArray(v)
         /\ d.of.type \in {"object", "array"}
         /\ \E i \in 1..Len(v.elems) :
              /\ reportThrows(d.of, ElemAt(v, i))
              /\ Len(reportElems(d.of, Arr(v.ref, SubSeq(v.elems, 1, i - 1)),
                                 <<>>, 1, <<>>)) <= FailureCap
    [] d.type = "union" ->
         \E i \in 1..Len(d.types) :
           /\ \A j \in 1..(i - 1) : reportDef(d.types[j], v, <<>>) # <<>>
           /\ reportThrows(d.types[i], v)

(***************************************************************************)
(* The state: a definition built bottom-up with the builders, an input     *)
(* value grown with it (so that the value has the declared shape down to   *)
(* places where anything may sit), and the outcomes of the calls made on   *)
(* the pair.                                                               *)
(***************************************************************************)
None == [op |-> "none"]

\* the primitives an input is made of
Prims == {Undefined, Null, Str("a"), Num(1), NaN, Bool(TRUE)}

\* the allowed values of the list definitions built
Allowed == <<Str("a"), Num(1)>>

Leaves == {STR, NUM, BOOL, LIST(Allowed)}

\* the path arguments report is called with (none passed: p = [])
Paths == {<<>>, <<Key("root")>>}

Fresh == asserted = None /\ reported = None

\* no node was passed to optional() yet
NoNode == [wraps |-> 0]

\* the parts of the state a specification does not use
Off == [pc |-> "off"]

Init ==
  /\ def \in Leaves
  /\ value \in Prims
  /\ depth = 0
  /\ asserted = None
  /\ reported = None
  /\ orig = NoNode
  /\ router = Off
  /\ timer = Off
  /\ docs = Off

\* optional(def)
MakeOptional ==
  /\ Fresh
  /\ ~def.optional
  /\ def' = optional(def)
  /\ UNCHANGED <<value, depth, asserted, reported, orig, outside>>

\* ARR(def), with an array holding the value
BuildARR ==
  /\ Fresh
  /\ depth < MaxDepth
  /\ def' = ARR(def)
  /\ value' \in { Arr(depth + 1, <<value>>),
                  Arr(depth + 1, <<Undefined, value>>) }
  /\ depth' = depth + 1
  /\ UNCHANGED <<asserted, reported, orig, outside>>

\* OBJ({a: def}), with an object holding the value under a beside an
\* undeclared key, or an object without a
BuildOBJ ==
  /\ Fresh
  /\ depth < MaxDepth
  /\ def' = OBJ(<<Prop("a", def)>>)
  /\ value' \in { Obj(depth + 1, <<Field("a", value), Field("x", Num(1))>>),
                  Obj(depth + 1, <<>>) }
  /\ depth' = depth + 1
  /\ UNCHANGED <<asserted, reported, orig, outside>>

\* OBJ({a: def, b: STR()}), with an object holding the value under a and b
BuildOBJ2 ==
  /\ Fresh
  /\ depth < MaxDepth
  /\ def' = OBJ(<<Prop("a", def), Prop("b", STR)>>)
  /\ value' = Obj(depth + 1, <<Field("a", value), Field("b", value)>>)
  /\ depth' = depth + 1
  /\ UNCHANGED <<asserted, reported, orig, outside>>

\* UNION(def, NUM()) and UNION(STR(), def), on the same value
BuildUNION ==
  /\ Fresh
  /\ depth < MaxDepth
  /\ def' \in {Union(<<def, NUM>>), Union(<<STR, def>>)}
  /\ depth' = depth + 1
  /\ UNCHANGED <<value, asserted, reported, orig, outside>>

\* an input that is a primitive where the definition declares a container
Misshape ==
  /\ Fresh
  /\ depth > 0
  /\ value' \in Prims
  /\ UNCHANGED <<def, depth, asserted, reported, orig, outside>>

\* def.assert(value)
CallAssert ==
  /\ asserted = None
  /\ asserted' = [op |-> "assert", out |-> assertDef(def, value, <<>>)]
  /\ UNCHANGED <<def, value, depth, reported, orig, outside>>

\* def.report(value, path)
CallReport ==
  /\ reported = None
  /\ \E p \in Paths :
       reported' = [op |-> "report", path |-> p,
                    threw |-> reportThrows(def, value),
                    failures |-> IF reportThrows(def, value) THEN <<>>
                                 ELSE reportDef(def, value, p)]
  /\ UNCHANGED <<def, value, depth, asserted, orig, outside>>

Next ==
  \/ MakeOptional
  \/ BuildARR
  \/ BuildOBJ
  \/ BuildOBJ2
  \/ BuildUNION
  \/ Misshape
  \/ CallAssert
  \/ CallReport

Spec == Init /\ [][Next]_vars

(***************************************************************************)
(* Long arrays.  The cap of reportArray shows on arrays of more than ten   *)
(* elements only: this specification grows one array under ARR(d), d a     *)
(* primitive kind, one element at a time, and reports on it.               *)
(***************************************************************************)
MaxLen == 11

\* the elements pushed: a string, a number, and the number NaN
CapElems == {Str("a"), Num(1), NaN}

\* the distinct elements of the array a, once e is pushed
ElemsWith(a, e) == {a.elems[i] : i \in 1..Len(a.elems)} \cup {e}

InitCap ==
  /\ def \in {ARR(STR), ARR(NUM), ARR(BOOL)}
  /\ value = Arr(1, <<>>)
  /\ depth = 1
  /\ asserted = None
  /\ reported = None
  /\ orig = NoNode
  /\ router = Off
  /\ timer = Off
  /\ docs = Off

\* value.push(e); an array never holds every kind of element at once
Push ==
  /\ Fresh
  /\ Len(value.elems) < MaxLen
  /\ \E e \in CapElems :
       /\ ElemsWith(value, e) # CapElems
       /\ value' = Arr(value.ref, Append(value.elems, e))
  /\ UNCHANGED <<def, depth, asserted, reported, orig, outside>>

NextCap ==
  \/ Push
  \/ CallAssert
  \/ CallReport

SpecCap == InitCap /\ [][NextCap]_vars

(***************************************************************************)
(* Long arrays inside containers: an object with two array fields, an      *)
(* array of two arrays, and an array of objects.  The inner arrays and the *)
(* array of objects grow one element at a time.                            *)
(***************************************************************************)
TwoArrays == OBJ(<<Prop("a", ARR(STR)), Prop("b", ARR(STR))>>)
ArrayOfArrays == ARR(ARR(STR))
ArrayOfObjects == ARR(OBJ(<<Prop("a", STR), Prop("b", STR)>>))

\* the elements of the inner arrays: a string, and a number where a string
\* is declared
Good == Str("a")
Bad == Num(1)

\* the objects pushed: with no, one or two fields of the wrong type
Objects(ref) ==
  {Obj(ref, <<Field("a", x), Field("b", y)>>) :
     <<x, y>> \in {<<Good, Good>>, <<Bad, Good>>, <<Bad, Bad>>}}

\* the inner arrays of the value, in order, whatever the container
Inner(v) ==
  IF v.t = "object" THEN <<Get(v, "a"), Get(v, "b")>> ELSE v.elems

\* the container of v holding the inner arrays x and y
WithInner(v, x, y) ==
  IF v.t = "object" THEN Obj(v.ref, <<Field("a", x), Field("b", y)>>)
  ELSE Arr(v.ref, <<x, y>>)

InitNest ==
  /\ \/ def = TwoArrays
        /\ value = Obj(0, <<Field("a", Arr(1, <<>>)), Field("b", Arr(2, <<>>))>>)
     \/ def = ArrayOfArrays
        /\ value = Arr(0, <<Arr(1, <<>>), Arr(2, <<>>)>>)
     \/ def = ArrayOfObjects
        /\ value = Arr(0, <<>>)
  /\ depth = 2
  /\ asserted = None
  /\ reported = None
  /\ orig = NoNode
  /\ router = Off
  /\ timer = Off
  /\ docs = Off

\* push onto one of the inner arrays; an inner array holds at most one
\* element of the declared type, at index 0 or 1
PushInner ==
  /\ Fresh
  /\ def \in {TwoArrays, ArrayOfArrays}
  /\ \E n \in 1..2 : \E e \in {Good, Bad} :
       LET a == Inner(value)[n]
           grown == Arr(a.ref, Append(a.elems, e))
       IN /\ Len(a.elems) < MaxLen
          /\ e = Good =>
               /\ Len(a.elems) <= 1
               /\ \A i \in 1..Len(a.elems) : a.elems[i] # Good
          /\ value' = IF n = 1 THEN WithInner(value, grown, Inner(value)[2])
                       ELSE WithInner(value, Inner(value)[1], grown)
  /\ UNCHANGED <<def, depth, asserted, reported, orig, outside>>

\* the field values of the object o, in order
Vals(o) == [i \in 1..Len(o.props) |-> o.props[i].val]

\* push an object onto the array of objects; the array never holds every
\* kind of object at once
PushObject ==
  /\ Fresh
  /\ def = ArrayOfObjects
  /\ Len(value.elems) < MaxLen
  /\ \E o \in Objects(Len(value.elems) + 1) :
       /\ {Vals(value.elems[i]) : i \in 1..Len(value.elems)} \cup {Vals(o)}
            # {Vals(x) : x \in Objects(0)}
       /\ value' = Arr(value.ref, Append(value.elems, o))
  /\ UNCHANGED <<def, depth, asserted, reported, orig, outside>>

NextNest ==
  \/ PushInner
  \/ PushObject
  \/ CallReport

SpecNest == InitNest /\ [][NextNest]_vars

(***************************************************************************)
(* optional() and the node it wraps.  Here def is a node d the caller      *)
(* holds; optional(d) is called on it any number of times, and assert and  *)
(* report are called on d and on the node optional(d) returned, in any     *)
(* order.  orig keeps d as it was before the first call.                   *)
(***************************************************************************)
MaxWraps == 2

\* the nodes passed to optional
OptNodes ==
  Leaves \cup {ARR(STR), OBJ(<<Prop("a", optional(NUM))>>),
               Union(<<optional(STR), NUM>>)}

OptValues == Prims \cup {Arr(1, <<Str("a")>>), Obj(1, <<>>)}

InitOptional ==
  /\ def \in OptNodes
  /\ value \in OptValues
  /\ depth = 0
  /\ asserted = None
  /\ reported = None
  /\ orig = NoNode
  /\ router = Off
  /\ timer = Off
  /\ docs = Off

\* the node a call is made on: d, or the node optional(d) returned
Node(on) == IF on = "d" THEN def ELSE orig.wrapped

\* optional(def)
Wrap ==
  /\ orig.wraps < MaxWraps
  /\ LET c == optionalCall(def)
     IN /\ def' = c.arg
        /\ orig' = [wraps |-> orig.wraps + 1,
                    before |-> IF orig = NoNode THEN def ELSE orig.before,
                    wrapped |-> c.node]
  /\ UNCHANGED <<value, depth, asserted, reported, outside>>

\* def.assert(value) or optional(def).assert(value)
AssertNode ==
  /\ \E on \in {"d", "wrapped"} :
       /\ on = "wrapped" => orig # NoNode
       /\ asserted' = [op |-> "assert", on |-> on,
                       out |-> assertDef(Node(on), value, <<>>)]
  /\ UNCHANGED <<def, value, depth, reported, orig, outside>>

\* def.report(value) or optional(def).report(value)
ReportNode ==
  /\ \E on \in {"d", "wrapped"} :
       /\ on = "wrapped" => orig # NoNode
       /\ reported' = [op |-> "report", on |-> on, path |-> <<>>,
                       threw |-> reportThrows(Node(on), value),
                       failures |-> IF reportThrows(Node(on), value) THEN <<>>
                                    ELSE reportDef(Node(on), value, <<>>)]
  /\ UNCHANGED <<def, value, depth, asserted, orig, outside>>

NextOptional ==
  \/ Wrap
  \/ AssertNode
  \/ ReportNode

SpecOptional == InitOptional /\ [][NextOptional]_vars

(***************************************************************************)
(* time.ts.  The clock is performance.now(), counted in ticks; it advances *)
(* at any moment, also while now() runs.  The sum startTime +              *)
(* performance.now() / 1000 is a double, too coarse to tell neighbouring   *)
(* readings of the clock apart: Grain readings share one value.  A call of *)
(* now() is one frame per step; the recursion ends in a RangeError when    *)
(* the stack is full.                                                      *)
(***************************************************************************)
MaxClock == 10
MaxCalls == 4
MaxFrames == 3
Grain == 2

\* performance.timeOrigin / 1000
startTime == 5

\* startTime + performance.now() / 1000
TimeAt(clock) == startTime + (clock \div Grain)

\* mutant: the value is returned whatever the last one was
SameAsLastNever(time, last) == FALSE

\* time === lastTime
SameAsLast(time, last) == time = last

InitTime ==
  /\ timer = [pc |-> "idle", clock |-> 0, lastTime |-> startTime,
              frames |-> 0, returned |-> <<>>, retried |-> FALSE,
              thrown |-> FALSE]
  /\ def = NUM
  /\ value = Undefined
  /\ depth = 0
  /\ asserted = None
  /\ reported = None
  /\ orig = NoNode
  /\ router = Off
  /\ docs = Off

notTimer == <<def, value, depth, asserted, reported, orig, router, docs>>

\* the clock advances
Tick ==
  /\ timer.clock < MaxClock
  /\ timer' = [timer EXCEPT !.clock = @ + 1]
  /\ UNCHANGED notTimer

\* now() is called
CallNow ==
  /\ timer.pc = "idle"
  /\ Len(timer.returned) < MaxCalls
  /\ timer' = [timer EXCEPT !.pc = "now", !.frames = 1, !.thrown = FALSE]
  /\ UNCHANGED notTimer

\* if (time === lastTime) return now()
NowRetry ==
  /\ timer.pc = "now"
  /\ SameAsLast(TimeAt(timer.clock), timer.lastTime)
  /\ timer.frames < MaxFrames
  /\ timer' = [timer EXCEPT !.frames = @ + 1, !.retried = TRUE]
  /\ UNCHANGED notTimer

\* the recursive call finds the stack full: a RangeError ends the call
NowOverflow ==
  /\ timer.pc = "now"
  /\ SameAsLast(TimeAt(timer.clock), timer.lastTime)
  /\ timer.frames = MaxFrames
  /\ timer' = [timer EXCEPT !.pc = "idle", !.frames = 0, !.thrown = TRUE]
  /\ UNCHANGED notTimer

\* lastTime = time; return time
NowReturn ==
  /\ timer.pc = "now"
  /\ ~SameAsLast(TimeAt(timer.clock), timer.lastTime)
  /\ timer' = [timer EXCEPT !.pc = "idle", !.frames = 0,
                            !.lastTime = TimeAt(timer.clock),
                            !.returned = Append(@, TimeAt(timer.clock))]
  /\ UNCHANGED notTimer

NextTime ==
  \/ Tick
  \/ CallNow
  \/ NowRetry
  \/ NowOverflow
  \/ NowReturn

SpecTime == InitTime /\ [][NextTime]_vars

(***************************************************************************)
(* api/doc.ts.  extractDocs walks a definition; here the builders are      *)
(* called with or without a description.                                   *)
(***************************************************************************)
\* the node a builder returns when it is passed the description s
Described(d, s) ==
  [k \in DOMAIN d \cup {"description"} |->
    IF k = "description" THEN s ELSE d[k]]

\* def.description: undefined when the builder was passed none
Description(d) ==
  IF "description" \in DOMAIN d THEN d.description ELSE Undefined

\* mutant: the description is not carried over
docBaseNoDescription(d) ==
  [type |-> d.type, description |-> Undefined, optional |-> d.optional]

\* const base = { type, description, optional }
docBase(d) ==
  [type |-> d.type, description |-> Description(d), optional |-> d.optional]

\* { ...base, <field>: x }
With(base, field, x) ==
  [k \in DOMAIN base \cup {field} |-> IF k = field THEN x ELSE base[k]]

RECURSIVE extractDocs(_)
extractDocs(d) ==
  IF d = Undefined THEN Undefined
  ELSE CASE d.type = "object" ->
              LET entries == [i \in 1..Len(d.properties) |->
                               [key |-> d.properties[i].key,
                                doc |-> extractDocs(d.properties[i].def)]]
              IN With(docBase(d), "properties",
                      SelectSeq(entries, LAMBDA e : e.doc # Undefined))
         [] d.type = "array" -> With(docBase(d), "items", extractDocs(d.of))
         [] d.type = "list" -> With(docBase(d), "options", d.values)
         [] d.type = "union" ->
              With(docBase(d), "options",
                   [i \in 1..Len(d.types) |-> extractDocs(d.types[i])])
         [] OTHER -> docBase(d)

InitDoc ==
  /\ def \in Leaves
  /\ value = Undefined
  /\ depth = 0
  /\ asserted = None
  /\ reported = None
  /\ orig = NoNode
  /\ router = Off
  /\ timer = Off
  /\ docs = Off

notDoc == <<value, asserted, reported, orig, router, timer>>

\* the builder of def was passed a description
Describe ==
  /\ docs = Off
  /\ "description" \notin DOMAIN def
  /\ def' = Described(def, Str("d"))
  /\ UNCHANGED <<depth, docs, notDoc>>

\* optional(def)
DocOptional ==
  /\ docs = Off
  /\ ~def.optional
  /\ def' = optional(def)
  /\ UNCHANGED <<depth, docs, notDoc>>

\* ARR(def), OBJ({a: def, b: STR()}) or UNION(def, NUM())
DocBuild ==
  /\ docs = Off
  /\ depth < MaxDepth
  /\ def' \in {ARR(def), OBJ(<<Prop("a", def), Prop("b", STR)>>),
                Union(<<def, NUM>>)}
  /\ depth' = depth + 1
  /\ UNCHANGED <<docs, notDoc>>

\* extractDocs(def)
CallExtractDocs ==
  /\ docs = Off
  /\ docs' = [op |-> "extractDocs", arg |-> def, out |-> extractDocs(def)]
  /\ UNCHANGED <<def, depth, notDoc>>

\* extractDocs(), as for a route that declares no input or no output
CallExtractDocsMissing ==
  /\ docs = Off
  /\ docs' = [op |-> "extractDocs", arg |-> Undefined,
              out |-> extractDocs(Undefined)]
  /\ UNCHANGED <<def, depth, notDoc>>

NextDoc ==
  \/ Describe
  \/ DocOptional
  \/ DocBuild
  \/ CallExtractDocs
  \/ CallExtractDocsMissing

SpecDoc == InitDoc /\ [][NextDoc]_vars

(***************************************************************************)
(* The router (makeRouter) serving one request of a route that declares an *)
(* input definition: def is the input definition, value the payload.       *)
(* router.calls logs the calls of assert, report, authorize and fn, each   *)
(* with its payload argument.  What authorize and fn do is theirs: every   *)
(* outcome is possible.                                                    *)
(***************************************************************************)
NoResponse == [status |-> "none"]

\* the input definitions of the routes
RouteInputs ==
  {OBJ(<<Prop("a", STR)>>), OBJ(<<Prop("a", optional(NUM))>>),
   OBJ(<<Prop("a", STR), Prop("b", NUM)>>), ARR(NUM)}

\* what getPayload returns: the parsed JSON body, {} when it does not parse
Payloads ==
  {Obj(1, <<Field("a", Str("a"))>>), Obj(1, <<Field("a", Num(1))>>),
   Obj(1, <<>>), Arr(1, <<Num(1)>>), Null, Str("a")}

Invoke(fn, arg) == [fn |-> fn, arg |-> arg]

\* respond.BadRequest({ message, failures })
BadRequest(failures) ==
  [status |-> "BadRequest", message |-> "Input validation failed",
   failures |-> failures]

\* mutant: a payload assert rejects is passed on to authorize
bindLenient(d, payload) ==
  LET out == assertDef(d, payload, <<>>)
  IN [pc |-> "authorize", asserted |-> out, reported |-> None,
      calls |-> <<Invoke("assert", payload)>>, response |-> NoResponse]

\* try { asserted = assert(payload) } catch { ...report(payload)... }
bind(d, payload) ==
  LET out == assertDef(d, payload, <<>>)
      failures == reportDef(d, payload, <<>>)
  IN IF out.threw
     THEN [pc |-> "done", asserted |-> out,
           reported |-> [op |-> "report", path |-> <<>>,
                         threw |-> reportThrows(d, payload),
                         failures |-> failures],
           calls |-> <<Invoke("assert", payload), Invoke("report", payload)>>,
           response |-> BadRequest(failures)]
     ELSE [pc |-> "authorize", asserted |-> out, reported |-> None,
           calls |-> <<Invoke("assert", payload)>>, response |-> NoResponse]

InitRouter ==
  /\ def \in RouteInputs
  /\ value = Undefined
  /\ depth = 0
  /\ asserted = None
  /\ reported = None
  /\ orig = NoNode
  /\ \E a \in BOOLEAN :
       router = [pc |-> "idle", authorize |-> a, calls |-> <<>>,
                 outcomes |-> <<>>, response |-> NoResponse]
  /\ timer = Off
  /\ docs = Off

notRouter == <<def, depth, orig, timer, docs>>

\* const payload = await getPayload(ctx)
Receive ==
  /\ router.pc = "idle"
  /\ value' \in Payloads
  /\ router' = [router EXCEPT !.pc = "assert"]
  /\ UNCHANGED <<asserted, reported, notRouter>>

\* assert(payload), and on a throw report(payload) and the response
Bind ==
  /\ router.pc = "assert"
  /\ LET b == bind(def, value)
     IN /\ asserted' = [op |-> "assert", out |-> b.asserted]
        /\ reported' = b.reported
        /\ router' = [router EXCEPT !.pc = b.pc, !.calls = b.calls,
                                    !.response = b.response]
  /\ UNCHANGED <<value, notRouter>>

\* mutant: whatever authorize throws is swallowed
AuthorizedAnyway(arg, next) ==
  IF ~router.authorize
  THEN router' = [router EXCEPT !.pc = next]
  ELSE \E outcome \in {"returns", "throws Error", "throws ResponseError"} :
         router' =
           [router EXCEPT
              !.calls = Append(@, Invoke("authorize", arg)),
              !.outcomes = Append(@, outcome),
              !.pc = next]

\* what follows `await authorize?.(ctx, payload)` called with arg, next being
\* the position reached when it returns; router.outcomes logs how each
\* authorize call ended
Authorized(arg, next) ==
  IF ~router.authorize
  THEN router' = [router EXCEPT !.pc = next]
  ELSE \E outcome \in {"returns", "throws Error", "throws ResponseError"} :
         router' =
           [router EXCEPT
              !.calls = Append(@, Invoke("authorize", arg)),
              !.outcomes = Append(@, outcome),
              !.pc = IF outcome = "returns" THEN next ELSE "done",
              !.response =
                CASE outcome = "returns" -> @
                  [] outcome = "throws Error" -> [status |-> "Unauthorized"]
                  [] OTHER -> [status |-> "thrown ResponseError"]]

\* the route function: authorize with the payload, then log and handler
AuthorizeBinding ==
  /\ router.pc = "authorize"
  /\ Authorized(value, "handler")
  /\ UNCHANGED <<value, asserted, reported, notRouter>>

\* handler(ctx, asserted): authorize again, with what assert returned
AuthorizeHandler ==
  /\ router.pc = "handler"
  /\ Authorized(asserted.out.value, "fn")
  /\ UNCHANGED <<value, asserted, reported, notRouter>>

\* fn(ctx, asserted) and the response made of its result
CallFn ==
  /\ router.pc = "fn"
  /\ \E result \in {"null", "Response", "value", "throws"} :
       router' =
         [router EXCEPT
            !.calls = Append(@, Invoke("fn", asserted.out.value)),
            !.pc = "done",
            !.response =
              CASE result = "null" -> [status |-> "NoContent"]
                [] result = "Response" -> [status |-> "Response of fn"]
                [] result = "value" -> [status |-> "OK"]
                [] OTHER -> [status |-> "thrown by fn"]]
  /\ UNCHANGED <<value, asserted, reported, notRouter>>

NextRouter ==
  \/ Receive
  \/ Bind
  \/ AuthorizeBinding
  \/ AuthorizeHandler
  \/ CallFn

SpecRouter == InitRouter /\ [][NextRouter]_vars

(***************************************************************************)
(* Claims.                                                                 *)
(***************************************************************************)
Asserted == asserted # None
Reported == reported # None
LeafTypes == {"string", "number", "boolean"}

\* the runtime type (and NaN-ness) a leaf definition of kind `type` declares
HasLeafType(type, v) == TypeOf(v) = type /\ v # NaN

\* C1: for every definition and value, report(v) is empty if and only if
\* assert(v) does not throw.
C1_ReportEmptyIffAssertOk ==
  (Asserted /\ Reported) =>
    ((reported.failures = <<>>) <=> ~asserted.out.threw)

\* C2: a leaf's report(value, path) is [] when the value has the declared
\* type (and is not NaN), and otherwise exactly one failure {type, path, value}
\* whose path is the path passed in.
C2_LeafReport ==
  (Reported /\ def.type \in LeafTypes /\ ~def.optional) =>
    reported.failures =
      IF HasLeafType(def.type, value) THEN <<>>
      ELSE <<Failure(reported.path, def.type, value)>>

\* C3: a leaf's assert(value) returns the value unchanged exactly when typeof
\* value is the declared kind and, for NUM, the value is not NaN; it throws
\* in every other case, NaN, null and undefined included.
C3_LeafAssert ==
  (Asserted /\ def.type \in LeafTypes /\ ~def.optional) =>
    IF HasLeafType(def.type, value)
    THEN ~asserted.out.threw /\ asserted.out.value = value
    ELSE asserted.out.threw

C3_Witness ==
  /\ Asserted
  /\ def = NUM
  /\ value = NaN
  /\ asserted.out.threw

\* C4: LIST(values).assert(v) returns v when v is a member and throws
\* otherwise; report(v, path) is [] when v is a member and otherwise exactly
\* one failure of type list with the given path, the value v and expected
\* equal to the whole list of allowed values.
C4_List ==
  (def.type = "list" /\ ~def.optional) =>
    LET member == \E i \in 1..Len(def.values) : def.values[i] = value
    IN /\ Asserted =>
            IF member
            THEN ~asserted.out.threw /\ asserted.out.value = value
            ELSE asserted.out.threw
       /\ Reported =>
            reported.failures =
              IF member THEN <<>>
              ELSE <<[type |-> "list", path |-> reported.path,
                      value |-> value, expected |-> def.values]>>

C4_Witness ==
  /\ Asserted
  /\ Reported
  /\ def = LIST(Allowed)
  /\ value = Bool(TRUE)
  /\ reported.path = <<Key("root")>>
  /\ Len(reported.failures) = 1
  /\ asserted.out.threw

\* the alternatives of a union whose own assert accepts v
Accepting(types, v) ==
  {i \in 1..Len(types) : ~assertDef(types[i], v, <<[alt |-> i]>>).threw}

\* the function that is the `assert` of the node d
AssertFn(d) == IF d.optional THEN "optionalAssert" ELSE "assert"

\* the alternatives whose assert was invoked by the call, in invocation order
AltsCalled(types, calls) ==
  LET top == SelectSeq(calls, LAMBDA c :
               Len(c.at) = 1 /\ c.fn = AssertFn(types[c.at[1].alt]))
  IN [n \in 1..Len(top) |-> top[n].at[1].alt]

\* C5: UNION(d1..dn).assert(v) tries the alternatives in declaration order
\* and returns the result of the first alternative whose assert does not
\* throw, without calling any later alternative; it throws if and only if the
\* assert of every alternative throws.
C5_UnionAssert ==
  (Asserted /\ def.type = "union" /\ ~def.optional) =>
    LET ok == Accepting(def.types, value)
        n == Len(def.types)
        first == CHOOSE i \in ok : \A j \in ok : i <= j
    IN IF ok = {}
       THEN /\ asserted.out.threw
            /\ AltsCalled(def.types, asserted.out.calls) = [i \in 1..n |-> i]
       ELSE /\ ~asserted.out.threw
            /\ asserted.out.value =
                 assertDef(def.types[first], value, <<[alt |-> first]>>).value
            /\ AltsCalled(def.types, asserted.out.calls) = [i \in 1..first |-> i]

C5_Witness ==
  /\ Asserted
  /\ def = Union(<<STR, NUM>>)
  /\ value = Str("a")
  /\ asserted.out.value = Str("a")
  /\ AltsCalled(def.types, asserted.out.calls) = <<1>>

RECURSIVE Concat(_, _)
\* f[1] \o f[2] \o ... \o f[n]
Concat(f, n) == IF n = 0 THEN <<>> ELSE Concat(f, n - 1) \o f[n]

\* C6: UNION(d1..dn).report(v, path) is [] as soon as the report of some
\* alternative is empty, and otherwise the concatenation, in declaration
\* order, of the failure lists of all the alternatives.
C6_UnionReport ==
  (Reported /\ def.type = "union") =>
    LET n == Len(def.types)
        each == [i \in 1..n |-> reportDef(def.types[i], value, reported.path)]
    IN reported.failures =
         IF \E i \in 1..n : each[i] = <<>> THEN <<>> ELSE Concat(each, n)

C6_Witness ==
  /\ Reported
  /\ def = Union(<<STR, NUM>>)
  /\ value = Bool(TRUE)
  /\ Len(reported.failures) = 2
  /\ reported.failures[1].type = "string"
  /\ reported.failures[2].type = "number"

\* the keys an object definition declares
Declared(properties) == {properties[i].key : i \in 1..Len(properties)}

\* C7: OBJ(fields).assert(o) checks only the declared fields: it throws
\* exactly when o is no object or the assert of a declared field throws on
\* o's value for it, whatever other keys o has, and on success it returns o
\* itself, undeclared keys included.
C7_ObjectAssertIgnoresUnknownKeys ==
  (Asserted /\ def.type = "object" /\ ~def.optional) =>
    LET props == def.properties
        fails(i) ==
          assertDef(props[i].def, Get(value, props[i].key),
                    <<Key(props[i].key)>>).threw
    IN /\ asserted.out.threw <=>
            \/ value = Null
            \/ TypeOf(value) # "object"
            \/ \E i \in 1..Len(props) : fails(i)
       /\ \A n \in 1..Len(asserted.out.calls) :
            LET c == asserted.out.calls[n]
            IN Len(c.at) > 0 => c.at[1].key \in Declared(props)
       /\ ~asserted.out.threw => asserted.out.value = value

C7_Witness ==
  /\ Asserted
  /\ def = OBJ(<<Prop("a", STR)>>)
  /\ value = Obj(1, <<Field("a", Str("a")), Field("x", Num(1))>>)
  /\ ~asserted.out.threw
  /\ asserted.out.value = value

\* C8: OBJ(fields).report(o, p) is the single failure {object, p, o} when o
\* is null or not of typeof object; otherwise every declared field is
\* visited and the failures of all of them are returned together, a failing
\* field of primitive kind k contributing one failure with path p + [k].
C8_ObjectReportAccumulates ==
  (Reported /\ def.type = "object") =>
    LET props == def.properties
        p == reported.path
        n == Len(props)
        each == [i \in 1..n |-> reportField(props, value, p, i)]
    IN IF value = Null \/ TypeOf(value) # "object"
       THEN reported.failures = <<Failure(p, "object", value)>>
       ELSE /\ reported.failures = Concat(each, n)
            /\ \A i \in 1..n :
                 LET d == props[i].def
                     v == Get(value, props[i].key)
                 IN (d.type \in LeafTypes /\ TypeOf(v) # d.type
                       /\ ~(d.optional /\ v = Undefined))
                    => each[i] =
                         <<Failure(p \o <<Key(props[i].key)>>, d.type, v)>>

C8_Witness ==
  /\ Reported
  /\ def = OBJ(<<Prop("a", NUM), Prop("b", STR)>>)
  /\ Get(value, "a") = Bool(TRUE)
  /\ Get(value, "b") = Bool(TRUE)
  /\ reported.path = <<Key("root")>>
  /\ reported.failures =
       << Failure(<<Key("root"), Key("a")>>, "number", Bool(TRUE)),
          Failure(<<Key("root"), Key("b")>>, "string", Bool(TRUE)) >>

\* C9: for every child definition d, with F = OBJ({a: optional(d)}): when the
\* input object has no key a, or a is undefined, F.assert succeeds and
\* F.report returns [].
C9_OptionalFieldAbsent ==
  (/\ def.type = "object"
   /\ ~def.optional
   /\ Len(def.properties) = 1
   /\ def.properties[1].def.optional
   /\ value.t = "object"
   /\ Get(value, def.properties[1].key) = Undefined) =>
    /\ Asserted => ~asserted.out.threw
    /\ Reported => reported.failures = <<>>

C9_Witness ==
  /\ Asserted
  /\ Reported
  /\ def = OBJ(<<Prop("a", optional(OBJ(<<Prop("a", NUM)>>)))>>)
  /\ value.t = "object"
  /\ value.props = <<>>
  /\ ~asserted.out.threw
  /\ reported.failures = <<>>

\* C10: optional(d).assert(v) returns undefined when v is null or undefined,
\* without calling d.assert; for every other v it has the outcome of
\* d.assert(v): the same returned value, or a throw when d.assert throws.
C10_OptionalAssert ==
  (Asserted /\ def.optional) =>
    LET d == [def EXCEPT !.optional = FALSE]
        inner == assertDef(d, value, <<>>)
    IN IF value \in {Null, Undefined}
       THEN /\ ~asserted.out.threw
            /\ asserted.out.value = Undefined
            /\ asserted.out.calls = <<Call("optionalAssert", <<>>, value)>>
       ELSE /\ asserted.out.threw = inner.threw
            /\ asserted.out.value = inner.value
            /\ asserted.out.calls =
                 <<Call("optionalAssert", <<>>, value)>> \o inner.calls

C10_Witness ==
  /\ Asserted
  /\ def = optional(NUM)
  /\ value = Null
  /\ ~asserted.out.threw
  /\ asserted.out.value = Undefined

\* the 1-based positions of the array a whose element the element
\* definition d rejects
Violating(d, a) ==
  {i \in 1..Len(a.elems) : assertDef(d, ElemAt(a, i), <<>>).threw}

\* the k-th lowest member of the set S of numbers
Lowest(S, k) == CHOOSE i \in S : Cardinality({j \in S : j < i}) = k - 1

\* C11: for ARR(d) with d one of STR, NUM, BOOL, report(a, p) returns at most
\* 10 failures, and when more than 10 elements violate d they are exactly the
\* failures of the 10 lowest violating indices, in increasing order, each
\* with path p + [index].
C11_ArrayCap ==
  (Reported /\ def.type = "array" /\ def.of.type \in LeafTypes
     /\ ~def.of.optional /\ IsArray(value)) =>
    LET bad == Violating(def.of, value)
        f == reported.failures
    IN /\ Len(f) <= FailureCap + 1
       /\ Cardinality(bad) > FailureCap + 1 =>
            /\ Len(f) = FailureCap + 1
            /\ \A k \in 1..Len(f) :
                 f[k] = Failure(reported.path \o <<Idx(Lowest(bad, k) - 1)>>,
                                def.of.type, ElemAt(value, Lowest(bad, k)))

\* a value that has not the container shape the definition d declares: no
\* non-null object for OBJ, no array for ARR
MisShaped(d, v) ==
  \/ d.type = "object" /\ (v = Null \/ TypeOf(v) # "object")
  \/ d.type = "array" /\ v.t # "array"

\* the path q starts with the path p
IsPrefix(p, q) == Len(p) <= Len(q) /\ SubSeq(q, 1, Len(p)) = p

\* the failures of f at or below the path p
Under(f, p) == SelectSeq(f, LAMBDA x : IsPrefix(p, x.path))

\* the children the container definition d declares for the value v, each
\* with the step leading to it
Children(d, v) ==
  IF d.type = "object"
  THEN {[step |-> Key(d.properties[i].key), def |-> d.properties[i].def,
         val |-> Get(v, d.properties[i].key)] : i \in 1..Len(d.properties)}
  ELSE {[step |-> Idx(i - 1), def |-> d.of, val |-> ElemAt(v, i)] :
          i \in 1..Len(v.elems)}

RECURSIVE ValueAt(_, _)
ValueAt(v, path) ==
  IF path = <<>> THEN v
  ELSE LET step == Head(path)
           x == IF "key" \in DOMAIN step
                THEN Get(v, step.key)
                ELSE IF v.t = "array" /\ step.idx < Len(v.elems)
                     THEN ElemAt(v, step.idx + 1)
                     ELSE Undefined
       IN ValueAt(x, Tail(path))

\* C13: under a definition whose root is OBJ or ARR, every failure of
\* report(v, p) has as path p followed by the field names and indices that
\* lead from v to the offending value, and as value the raw value found there.
C13_PathCorrect ==
  (Reported /\ def.type \in {"object", "array"}) =>
    \A n \in 1..Len(reported.failures) :
      LET f == reported.failures[n]
          p == reported.path
      IN /\ IsPrefix(p, f.path)
         /\ f.value = ValueAt(value, SubSeq(f.path, Len(p) + 1, Len(f.path)))

\* ARR(OBJ({a: NUM()})).report([{a: "a", x: 1}], ["root"]) has a failure
\* with path ["root", 0, "a"]
C13_Witness ==
  /\ Reported
  /\ def = ARR(OBJ(<<Prop("a", NUM)>>))
  /\ value.t = "array"
  /\ \E n \in 1..Len(reported.failures) :
       /\ reported.failures[n].path = <<Key("root"), Idx(0), Key("a")>>
       /\ reported.failures[n].value = Str("a")

\* C14 as stated: for every definition, optional-wrapped ones included, and
\* every value assert accepts, assert returns a value equal to that value
\* (the same reference for objects and arrays, the same primitive otherwise).
C14_AssertReturnsValue ==
  (Asserted /\ ~asserted.out.threw) => asserted.out.value = value

\* C14, amended: every accepted value other than null is returned itself (the
\* same reference for objects and arrays, the same primitive otherwise);
\* null, which only an optional-wrapped node accepts, is returned as
\* undefined.
C14_AssertReturnsValueOrUndefined ==
  (Asserted /\ ~asserted.out.threw) =>
    asserted.out.value = IF value = Null THEN Undefined ELSE value

\* an optional-wrapped container accepted null
C14_Witness ==
  /\ Asserted
  /\ ~asserted.out.threw
  /\ def.optional
  /\ def.type \in {"object", "array"}
  /\ value = Null
  /\ asserted.out.value = Undefined

\* ARR(d).assert(a) returned
ArrayAccepted ==
  /\ Asserted
  /\ def.type = "array"
  /\ ~def.optional
  /\ ~asserted.out.threw

\* C17 as stated: on success ARR(d).assert(a) returns a new sequence,
\* distinct from a, whose i-th element is the value d.assert(a[i]) returned.
C17_ArrayAssertReturnsNew ==
  ArrayAccepted =>
    LET r == asserted.out.value
    IN /\ r.t = "array"
       /\ r.ref # value.ref
       /\ Len(r.elems) = Len(value.elems)
       /\ \A i \in 1..Len(r.elems) :
            r.elems[i] = assertDef(def.of, ElemAt(value, i), <<>>).value

\* C17, amended: on success ARR(d).assert(a) returns the input array a
\* itself, not a copy, holding the elements it held; what d.assert returned
\* for the elements is discarded.
C17_ArrayAssertReturnsInput ==
  ArrayAccepted =>
    /\ asserted.out.value.t = "array"
    /\ asserted.out.value.ref = value.ref
    /\ asserted.out.value.elems = value.elems

\* ARR(optional(d)).assert([null]) returned: d.assert gave undefined for the
\* element, the array returned still holds null
C17_Witness ==
  /\ ArrayAccepted
  /\ def.of.optional
  /\ value.elems = <<Null>>
  /\ asserted.out.value.elems = <<Null>>

\* the children of the container definition d for the value v, in traversal
\* order: the declared fields, or the elements by index
ChildSeq(d, v) ==
  IF d.type = "object"
  THEN [i \in 1..Len(d.properties) |->
         [step |-> Key(d.properties[i].key), def |-> d.properties[i].def,
          val |-> Get(v, d.properties[i].key)]]
  ELSE [i \in 1..Len(v.elems) |->
         [step |-> Idx(i - 1), def |-> d.of, val |-> ElemAt(v, i)]]

\* the child asserts the root assert invoked itself, in order of invocation
DirectCalls(kids, calls) ==
  SelectSeq(calls, LAMBDA c :
    /\ Len(c.at) = 1
    /\ \E i \in 1..Len(kids) :
         kids[i].step = c.at[1] /\ c.fn = AssertFn(kids[i].def))

\* the child assert of kids[i] throws
ChildThrows(kids, i) == assertDef(kids[i].def, kids[i].val, <<>>).threw

\* how many child asserts a fail-fast traversal of kids invokes
Invoked(kids) ==
  IF \E i \in 1..Len(kids) : ChildThrows(kids, i)
  THEN CHOOSE i \in 1..Len(kids) :
         ChildThrows(kids, i) /\ \A j \in 1..(i - 1) : ~ChildThrows(kids, j)
  ELSE Len(kids)

\* C20: OBJ.assert calls the field asserts in declaration order and
\* ARR.assert the element assert in index order; once a child assert has
\* thrown, no later child assert is invoked and the error reaches the caller.
C20_AssertFailFast ==
  (Asserted /\ def.type \in {"object", "array"} /\ ~def.optional
     /\ ~MisShaped(def, value)) =>
    LET kids == ChildSeq(def, value)
        direct == DirectCalls(kids, asserted.out.calls)
    IN /\ Len(direct) = Invoked(kids)
       /\ \A n \in 1..Len(direct) :
            direct[n].at = <<kids[n].step>> /\ direct[n].arg = kids[n].val
       /\ asserted.out.threw <=> \E i \in 1..Len(kids) : ChildThrows(kids, i)

\* OBJ({a: NUM(), b: STR()}).assert({a: "a", b: "a"}) threw on a, and the
\* assert of b was not invoked
C20_Witness ==
  /\ Asserted
  /\ def = OBJ(<<Prop("a", NUM), Prop("b", STR)>>)
  /\ Get(value, "a") = Str("a")
  /\ Get(value, "b") = Str("a")
  /\ asserted.out.threw
  /\ \A n \in 1..Len(asserted.out.calls) :
       asserted.out.calls[n].at # <<Key("b")>>

\* C18: optional(d) returns a new node and leaves d unchanged: after any
\* number of optional(d) calls and of assert and report calls on either node,
\* d.optional is still unset, d.assert rejects null and undefined exactly as
\* before, and the kind, payload and report of d are what they were.
C18_OptionalLeavesNode ==
  orig # NoNode =>
    /\ ~def.optional
    /\ def = orig.before
    /\ \A x \in {Null, Undefined} :
         assertDef(def, x, <<>>).threw = assertDef(orig.before, x, <<>>).threw
    /\ \A x \in OptValues :
         reportDef(def, x, <<>>) = reportDef(orig.before, x, <<>>)
    /\ orig.wrapped # def
    /\ orig.wrapped.optional
    /\ orig.wrapped.type = def.type
    /\ (Asserted /\ asserted.on = "d") =>
         asserted.out = assertDef(orig.before, value, <<>>)

\* optional(STR()) was built twice and accepted null, and STR() still
\* rejects null
C18_Witness ==
  /\ orig.wraps = MaxWraps
  /\ def = STR
  /\ value = Null
  /\ Asserted
  /\ asserted.on = "wrapped"
  /\ ~asserted.out.threw
  /\ Reported
  /\ assertDef(def, Null, <<>>).threw

\* C19: within one process, with a clock that never goes back, every call of
\* now() returns a value strictly greater than the value the previous call
\* returned, so that no value is returned twice.
C19_NowStrictlyIncreasing ==
  /\ \A i \in 1..Len(timer.returned) : timer.returned[i] > startTime
  /\ \A i \in 1..Len(timer.returned) : \A j \in 1..Len(timer.returned) :
       i < j => timer.returned[i] < timer.returned[j]

\* now() returned twice, and at least once it found the time of the last
\* call and called itself again
C19_Witness ==
  /\ Len(timer.returned) >= 2
  /\ timer.retried
  /\ timer.pc = "idle"

\* the fields every documentation node has
BaseFields == {"type", "description", "optional"}

\* the documentation node doc mirrors the definition node d
RECURSIVE Mirrors(_, _)
Mirrors(doc, d) ==
  /\ doc.type = d.type
  /\ doc.description = Description(d)
  /\ doc.optional = d.optional
  /\ CASE d.type = "object" ->
            /\ DOMAIN doc = BaseFields \cup {"properties"}
            /\ Len(doc.properties) = Len(d.properties)
            /\ \A i \in 1..Len(d.properties) :
                 /\ doc.properties[i].key = d.properties[i].key
                 /\ Mirrors(doc.properties[i].doc, d.properties[i].def)
       [] d.type = "array" ->
            /\ DOMAIN doc = BaseFields \cup {"items"}
            /\ Mirrors(doc.items, d.of)
       [] d.type = "list" ->
            /\ DOMAIN doc = BaseFields \cup {"options"}
            /\ doc.options = d.values
       [] d.type = "union" ->
            /\ DOMAIN doc = BaseFields \cup {"options"}
            /\ Len(doc.options) = Len(d.types)
            /\ \A i \in 1..Len(d.types) : Mirrors(doc.options[i], d.types[i])
       [] OTHER -> DOMAIN doc = BaseFields

\* C16: extractDocs returns undefined for a missing def and otherwise a tree
\* of the shape of def: per declared field one property under the same key,
\* one items node for an array, the allowed values of a list as options, one
\* option per alternative of a union in order, nothing but the type for a
\* leaf; every node carries the description and optional flag of its node.
C16_ExtractDocsMirrors ==
  docs # Off =>
    IF docs.arg = Undefined THEN docs.out = Undefined
    ELSE Mirrors(docs.out, docs.arg)

\* the documentation of OBJ({a: optional(ARR(STR("d"))), b: STR()})
C16_Witness ==
  /\ docs # Off
  /\ docs.arg # Undefined
  /\ docs.out.type = "object"
  /\ docs.out.properties[1].key = "a"
  /\ docs.out.properties[1].doc.type = "array"
  /\ docs.out.properties[1].doc.optional
  /\ docs.out.properties[1].doc.items.description = Str("d")
  /\ docs.out.properties[2].doc.type = "string"

\* the router called the function fn while serving the request
Called(fn) == \E n \in 1..Len(router.calls) : router.calls[n].fn = fn

\* C15: for a route with an input definition the router calls
\* input.assert(payload) first; if and only if it throws, it calls
\* input.report on the same payload and responds BadRequest with
\* {message, failures}, and then neither authorize nor fn is invoked.
C15_RouterBadRequest ==
  router.calls # <<>> =>
    /\ router.calls[1] = Invoke("assert", value)
    /\ Called("report") <=> asserted.out.threw
    /\ asserted.out.threw =>
         /\ router.calls = <<Invoke("assert", value), Invoke("report", value)>>
         /\ router.response = BadRequest(reportDef(def, value, <<>>))
         /\ ~Called("authorize")
         /\ ~Called("fn")
    /\ ~asserted.out.threw => router.response.status # "BadRequest"

\* a route with authorize answered BadRequest with one failure
C15_Witness ==
  /\ router.pc = "done"
  /\ router.authorize
  /\ router.response.status = "BadRequest"
  /\ Len(router.response.failures) = 1
  /\ asserted.out.threw

\* C21: for an element definition u of kind union, ARR(u).report(a, p) is,
\* up to the cap, the concatenation over the indices i of
\* u.report(a[i], p + [i]): an element u.report has nothing against
\* contributes no failure.
C21_ArrayOfUnionDelegates ==
  (Reported /\ def.type = "array" /\ def.of.type = "union"
     /\ IsArray(value)) =>
    LET n == Len(value.elems)
        each == [i \in 1..n |->
                  reportDef(def.of, ElemAt(value, i),
                            reported.path \o <<Idx(i - 1)>>)]
    IN Len(Concat(each, n)) <= FailureCap =>
         reported.failures = Concat(each, n)

\* C22: containers check optionality before they delegate to the report of a
\* child of any kind: for ARR(optional(d)) with d an object or an array, an
\* undefined element is accepted by report, no failure being recorded for it.
C22_OptionalElementUndefined ==
  (Reported /\ def.type = "array" /\ def.of.optional
     /\ def.of.type \in {"object", "array"} /\ IsArray(value)) =>
    \A i \in 1..Len(value.elems) :
      ElemAt(value, i) = Undefined =>
        Under(reported.failures, reported.path \o <<Idx(i - 1)>>) = <<>>

\* C23: for OBJ({k: optional(d)}) and an input whose k is null, assert
\* succeeds and report returns no failure for k.
C23_OptionalFieldNull ==
  (/\ def.type = "object"
   /\ ~def.optional
   /\ Len(def.properties) = 1
   /\ def.properties[1].def.optional
   /\ value.t = "object"
   /\ Get(value, def.properties[1].key) = Null) =>
    /\ Asserted => ~asserted.out.threw
    /\ Reported =>
         Under(reported.failures,
               reported.path \o <<Key(def.properties[1].key)>>) = <<>>

\* the children of the root that are declared NUM() and hold NaN
NaNChildren ==
  IF def.type \in {"object", "array"} /\ ~MisShaped(def, value)
  THEN {c \in Children(def, value) : c.def = NUM /\ c.val = NaN}
  ELSE {}

\* C24: NaN is a type mismatch wherever a NUM is declared: the report of
\* OBJ({n: NUM()}) on {n: NaN} and of ARR(NUM()) on [NaN] contains a failure
\* of type number at the path of the NaN, and assert rejects the same input.
C24_NaNReported ==
  \A c \in NaNChildren :
    /\ Asserted => asserted.out.threw
    /\ Reported =>
         \E n \in 1..Len(reported.failures) :
           reported.failures[n] =
             Failure(reported.path \o <<c.step>>, "number", NaN)

\* C26: for an object field declared LIST or UNION, OBJ.report agrees with
\* the validator of the field: there is no failure for the field exactly when
\* the assert of the field accepts the value (for a list: when the value is
\* one of the allowed values).
C26_ListUnionField ==
  (Reported /\ def.type = "object" /\ ~MisShaped(def, value)) =>
    \A i \in 1..Len(def.properties) :
      LET d == def.properties[i].def
          k == def.properties[i].key
      IN (d.type \in {"list", "union"} /\ ~d.optional) =>
           (Under(reported.failures, reported.path \o <<Key(k)>>) = <<>>
              <=> ~assertDef(d, Get(value, k), <<>>).threw)

\* the declared fields of the root object that are required, of kind STR,
\* NUM, BOOL, LIST, OBJ or ARR, and absent or undefined in the input object
MissingRequired ==
  IF def.type = "object" /\ value.t = "object"
  THEN {c \in Children(def, value) :
          /\ ~c.def.optional
          /\ c.def.type # "union"
          /\ c.val = Undefined}
  ELSE {}

\* C27: a missing required field is a violation in both operations: for an
\* object input in which a required field k of kind STR, NUM, BOOL, LIST, OBJ
\* or ARR is absent or undefined, assert throws and report(o, p) contains a
\* failure whose path is p + [k].
C27_MissingRequiredField ==
  \A c \in MissingRequired :
    /\ Asserted => asserted.out.threw
    /\ Reported =>
         \E n \in 1..Len(reported.failures) :
           reported.failures[n].path = reported.path \o <<c.step>>

\* OBJ({a: ARR(...)}) on {}: assert threw and report has a failure at [a]
C27_Witness ==
  /\ Asserted
  /\ Reported
  /\ def.type = "object"
  /\ def.properties[1].def.type = "array"
  /\ ~def.properties[1].def.optional
  /\ value.t = "object"
  /\ value.props = <<>>
  /\ asserted.out.threw
  /\ reported.failures =
       <<Failure(reported.path \o <<Key("a")>>, "array", Undefined)>>

\* the definitions built from OBJ, ARR, STR, BOOL and NUM only, optional
\* being applied to nothing but STR, BOOL or NUM object fields; field tells
\* whether d is declared as an object field
RECURSIVE Restricted(_, _)
Restricted(d, field) ==
  CASE d.type \in LeafTypes -> d.optional => field
    [] d.type = "object" ->
         /\ ~d.optional
         /\ \A i \in 1..Len(d.properties) :
              Restricted(d.properties[i].def, TRUE)
    [] d.type = "array" -> ~d.optional /\ Restricted(d.of, FALSE)
    [] OTHER -> FALSE

\* the values built from strings, booleans, numbers other than NaN,
\* undefined, plain objects and dense arrays, null occurring nowhere
RECURSIVE Plain(_)
Plain(v) ==
  CASE v.t = "object" ->
         \A i \in 1..Len(v.props) : Plain(v.props[i].val)
    [] v.t = "array" ->
         \A i \in 1..Len(v.elems) : v.elems[i] # Hole /\ Plain(v.elems[i])
    [] OTHER -> v # Null /\ v # NaN

\* C29: for every definition with root OBJ or ARR built from OBJ, ARR, STR,
\* BOOL, NUM and optional on STR/BOOL/NUM object fields, and every value
\* built from strings, booleans, non-NaN numbers, undefined, plain objects
\* and dense arrays, report(v) is empty if and only if assert(v) does not
\* throw.
C29_RestrictedAgreement ==
  (/\ Asserted
   /\ Reported
   /\ def.type \in {"object", "array"}
   /\ Restricted(def, FALSE)
   /\ Plain(value)) =>
    ((reported.failures = <<>>) <=> ~asserted.out.threw)

\* ARR(OBJ({a: optional(NUM())})) on an array of such objects: both agree on
\* acceptance
C29_Witness ==
  /\ Asserted
  /\ Reported
  /\ def = ARR(OBJ(<<Prop("a", optional(NUM))>>))
  /\ value.t = "array"
  /\ Plain(value)
  /\ ~asserted.out.threw
  /\ reported.failures = <<>>

\* the positions of the log at which the router called fn
CallsOf(fn) == {n \in 1..Len(router.calls) : router.calls[n].fn = fn}

\* C30: a request of a route with input follows the order assert, authorize,
\* fn: authorize is never invoked before input.assert has succeeded; fn is
\* invoked at most once, only after assert succeeded and every authorize
\* call returned, and with the value assert returned; an authorize call
\* that throws something other than a ResponseError yields the response
\* Unauthorized (401), fn not being invoked.
C30_RouterOrder ==
  LET A == CallsOf("authorize")
      F == CallsOf("fn")
  IN /\ (A \cup F # {}) =>
          /\ router.calls[1] = Invoke("assert", value)
          /\ ~asserted.out.threw
          /\ \A n \in A \cup F : n > 1
     /\ Cardinality(F) <= 1
     /\ Len(router.outcomes) = Cardinality(A)
     /\ \A n \in F :
          /\ \A m \in A : m < n
          /\ router.authorize => A # {}
          /\ \A m \in 1..Len(router.outcomes) : router.outcomes[m] = "returns"
          /\ router.calls[n].arg = asserted.out.value
     /\ (\E m \in 1..Len(router.outcomes) :
           router.outcomes[m] = "throws Error") =>
          /\ router.pc = "done"
          /\ router.response.status = "Unauthorized"
          /\ F = {}

\* a request of a route with authorize went through assert, authorize and fn
C30_Witness ==
  /\ router.pc = "done"
  /\ router.authorize
  /\ CallsOf("assert") = {1}
  /\ CallsOf("authorize") # {}
  /\ Cardinality(CallsOf("fn")) = 1
  /\ router.response.status = "OK"

\* what a capped traversal of the array a of primitives declared d returns:
\* the failures of the lowest violating indices, ten at most
CappedLeaf(d, a, p) ==
  LET bad == Violating(d, a)
      k == IF Cardinality(bad) > FailureCap THEN FailureCap + 1
           ELSE Cardinality(bad)
  IN [j \in 1..k |->
       Failure(p \o <<Idx(Lowest(bad, j) - 1)>>, d.type,
               ElemAt(a, Lowest(bad, j)))]

\* C25: the cap of 10 failures is per array, not per report call: in an
\* object with several array fields every array traversal is capped on its
\* own, and so are the inner traversals of an array of arrays; with two
\* array fields of more than 10 invalid elements each, report returns 20
\* failures, 10 under [a, i] and 10 under [b, i].
C25_CapPerArray ==
  Reported =>
    /\ def = TwoArrays =>
         reported.failures =
           CappedLeaf(STR, Get(value, "a"), reported.path \o <<Key("a")>>)
             \o CappedLeaf(STR, Get(value, "b"), reported.path \o <<Key("b")>>)
    /\ def = ArrayOfArrays =>
         \A i \in 1..Len(value.elems) :
           Under(reported.failures, reported.path \o <<Idx(i - 1)>>)
             \in {<<>>, CappedLeaf(STR, value.elems[i],
                                   reported.path \o <<Idx(i - 1)>>)}

\* two array fields of eleven invalid elements each yield twenty failures
C25_Witness ==
  /\ Reported
  /\ def = TwoArrays
  /\ Cardinality(Violating(STR, Get(value, "a"))) = FailureCap + 2
  /\ Cardinality(Violating(STR, Get(value, "b"))) = FailureCap + 2
  /\ Len(reported.failures) = 2 * (FailureCap + 1)
  /\ Len(Under(reported.failures, <<Key("b")>>)) = FailureCap + 1

\* the largest member of the non-empty set S of numbers
Max(S) == CHOOSE m \in S : \A x \in S : x <= m

\* C28: for ARR(d) with d an object or an array the cap is tested once a
\* whole element has been reported, so report can return more than 10
\* failures: at most 9 + m, m being the largest number of failures the
\* report of a single element returns, and no element after the first index
\* at which the count exceeds 9 contributes a failure.
C28_CapAfterElement ==
  (Reported /\ def.type = "array" /\ def.of.type \in {"object", "array"}
     /\ IsArray(value)) =>
    LET n == Len(value.elems)
        p == reported.path
        each == [i \in 1..n |->
                  reportDef(def.of, ElemAt(value, i), p \o <<Idx(i - 1)>>)]
        over == {i \in 1..n : Len(Concat(each, i)) > FailureCap}
        stop == IF over = {} THEN n ELSE Lowest(over, 1)
        m == Max({Len(each[i]) : i \in 1..n} \cup {0})
    IN /\ reported.failures = Concat(each, stop)
       /\ Len(reported.failures) <= FailureCap + m
       /\ \A i \in (stop + 1)..n :
            Under(reported.failures, p \o <<Idx(i - 1)>>) = <<>>

\* an array of objects for which report returned eleven failures, the last
\* objects of the array contributing none
C28_Witness ==
  /\ Reported
  /\ def = ArrayOfObjects
  /\ Len(value.elems) = MaxLen
  /\ Len(reported.failures) = FailureCap + 2
  /\ Under(reported.failures, reported.path \o <<Idx(MaxLen - 1)>>) = <<>>
  /\ reportDef(def.of, value.elems[MaxLen], <<>>) # <<>>

====
